---- MODULE Spec2Model ----
(***************************************************************************)
(* Model of run.py, the single-pass batch job: load_config, seeding of the *)
(* global random source, load_data, rolling mean, signal, metrics, report  *)
(* write, and the top-level exception handler with write_error.            *)
(*                                                                         *)
(* One run is one behaviour.  The file system (config file, input file,    *)
(* whether the output path can be opened for writing) is chosen in Init    *)
(* and does not change during the run.                                     *)
(***************************************************************************)
EXTENDS Integers, Sequences, FiniteSets, TLC

VARIABLES
    cfgFile,      \* content of the --config path
    inFile,       \* content of the --input path
    outWritable,  \* whether open(args.output, "w") succeeds
    pc,           \* position in main
    config,       \* the mapping returned by load_config
    configLoaded, \* TRUE once load_config has returned
    rng,          \* state of the global numpy random source
    inputReads,   \* number of times load_data touched the input path
    df,           \* the DataFrame
    signal_rate,  \* df["signal"].mean(), an exact fraction
    latency_ms,   \* int((time.time() - start_time) * 1000)
    outFile,      \* content of the --output path
    stdout,       \* what was printed
    log,          \* lines of the log file
    err,          \* the exception caught by "except Exception as e"
    failedAt,     \* the step whose code raised it
    version,      \* local variable "version" of the handler
    exitCode,     \* process exit status
    crashed       \* TRUE when an exception left main uncaught

vars == <<cfgFile, inFile, outWritable, pc, config, configLoaded, rng,
          inputReads, df, signal_rate, latency_ms, outFile, stdout, log,
          err, failedAt, version, exitCode, crashed>>

(***************************************************************************)
(* Bounds of the exploration.                                              *)
(***************************************************************************)
MaxRows == 5       \* longest close series explored
MaxClose == 4      \* close prices are 10, 20, ..., 10 * MaxClose
MaxWindow == 3     \* largest integer stored under a configuration key
MaxLatency == 1    \* elapsed milliseconds are 0 .. MaxLatency

(***************************************************************************)
(* Values a YAML scalar or a JSON field can hold.  t is the Python type,   *)
(* n the numeric value (floats in ten-thousandths), s the text.            *)
(***************************************************************************)
IntV(n) == [t |-> "int", n |-> n, s |-> ""]
BoolV(b) == [t |-> "bool", n |-> IF b THEN 1 ELSE 0, s |-> ""]
FloatV(n) == [t |-> "float", n |-> n, s |-> ""]
StrV(s) == [t |-> "str", n |-> 0, s |-> s]
NullV == [t |-> "null", n |-> 0, s |-> ""]
DateV == [t |-> "date", n |-> 0, s |-> "2024-01-01"]

\* isinstance(v, int): bool is a subclass of int in Python.
IsInstanceInt(v) == v.t \in {"int", "bool"}

\* isinstance(v, str)
IsInstanceStr(v) == v.t = "str"

\* json.dump can encode every scalar yaml.safe_load produces except dates.
JsonSerializable(v) == v.t # "date"

(***************************************************************************)
(* Exceptions.                                                             *)
(***************************************************************************)
NoErr == [type |-> "", msg |-> ""]
Exc(type, msg) == [type |-> type, msg |-> msg]

(***************************************************************************)
(* load_config                                                             *)
(***************************************************************************)
\* Variant: the keys are checked in the opposite order.
required_keys_reversed == <<"version", "window", "seed">>

required_keys == <<"seed", "window", "version">>

NoConfig == [k \in {} |-> NullV]

ConfigOk(cfg) == [ok |-> TRUE, err |-> NoErr, config |-> cfg]
ConfigRaised(e) == [ok |-> FALSE, err |-> e, config |-> NoConfig]

\* for key in required_keys: if key not in config: raise ...
RECURSIVE FirstMissingKey(_, _)
FirstMissingKey(cfg, i) ==
    IF i > Len(required_keys) THEN ""
    ELSE IF required_keys[i] \notin DOMAIN cfg THEN required_keys[i]
    ELSE FirstMissingKey(cfg, i + 1)

SeedTypeOk(v) == IsInstanceInt(v)

WindowTypeOk(v) == IsInstanceInt(v) /\ ~(v.n <= 0)

VersionTypeOk(v) == IsInstanceStr(v)

ValidateConfig(cfg) ==
    LET missing == FirstMissingKey(cfg, 1) IN
    IF missing # ""
    THEN ConfigRaised(Exc("ValueError", "Missing config key: " \o missing))
    ELSE IF ~SeedTypeOk(cfg["seed"])
    THEN ConfigRaised(Exc("ValueError", "Seed must be integer"))
    ELSE IF ~WindowTypeOk(cfg["window"])
    THEN ConfigRaised(Exc("ValueError", "Window must be positive integer"))
    ELSE IF ~VersionTypeOk(cfg["version"])
    THEN ConfigRaised(Exc("ValueError", "Version must be string"))
    ELSE ConfigOk(cfg)

\* file.kind: "absent" (no such path), "malformed" (yaml.safe_load raises),
\* "empty" (safe_load returns None), "scalar" (a bare number: "key in 42"
\* raises TypeError), "map" (a mapping, file.map).
load_config(file) ==
    IF file.kind = "absent"
    THEN ConfigRaised(Exc("FileNotFoundError", "Config file not found"))
    ELSE IF file.kind = "malformed"
    THEN ConfigRaised(Exc("YAMLError", "could not parse the config file"))
    ELSE IF file.kind = "empty"
    THEN ConfigRaised(Exc("ValueError", "Config file is empty"))
    ELSE IF file.kind = "scalar"
    THEN ConfigRaised(Exc("TypeError", "argument of type 'int' is not iterable"))
    ELSE ValidateConfig(file.map)

(***************************************************************************)
(* np.random.seed(seed): takes operator.index(seed), so True seeds with 1, *)
(* and raises ValueError for a negative seed (and for one above 2**32 - 1, *)
(* which lies outside the explored values).                                *)
(***************************************************************************)
Unseeded == [seeded |-> FALSE, seed |-> NullV, calls |-> 0]

SeedAccepted(v) == v.n >= 0

(***************************************************************************)
(* load_data                                                               *)
(***************************************************************************)
\* A table is column-major, as a DataFrame: cols is the header in order,
\* col maps each column name to its cells, numeric tells whether pandas
\* inferred a numeric dtype for the close column.
NoTable == [cols |-> <<>>, col |-> [c \in {} |-> <<>>], numeric |-> TRUE]

Range(s) == {s[i] : i \in 1..Len(s)}

NRows(t) == IF Len(t.cols) = 0 THEN 0 ELSE Len(t.col[t.cols[1]])

DataOk(t) == [ok |-> TRUE, err |-> NoErr, df |-> t]
DataRaised(e) == [ok |-> FALSE, err |-> e, df |-> NoTable]

\* df.empty
DfEmpty(t) == NRows(t) = 0

HasClose(t) == "close" \in Range(t.cols)

\* Variant: the close column is looked for before the row count.
CheckTableCloseFirst(t) ==
    IF ~HasClose(t)
    THEN DataRaised(Exc("ValueError", "Missing required column: close"))
    ELSE IF DfEmpty(t)
    THEN DataRaised(Exc("ValueError", "Input CSV file is empty"))
    ELSE DataOk(t)

CheckTable(t) ==
    IF DfEmpty(t)
    THEN DataRaised(Exc("ValueError", "Input CSV file is empty"))
    ELSE IF ~HasClose(t)
    THEN DataRaised(Exc("ValueError", "Missing required column: close"))
    ELSE DataOk(t)

\* file.kind: "absent", "unparseable" (pd.read_csv raises), "table".
load_data(file) ==
    IF file.kind = "absent"
    THEN DataRaised(Exc("FileNotFoundError", "Input CSV file not found"))
    ELSE IF file.kind = "unparseable"
    THEN DataRaised(Exc("ValueError", "Invalid CSV file format"))
    ELSE CheckTable(file.table)

(***************************************************************************)
(* df["close"].rolling(window=window).mean()                               *)
(***************************************************************************)
\* A float cell: NaN, or the exact fraction num / den.
NaN == [nan |-> TRUE, num |-> 0, den |-> 1]
Frac(num, den) == [nan |-> FALSE, num |-> num, den |-> den]

\* Rolling(window=...) rejects a window that is not an integer (pandas
\* is_integer excludes bool); .mean() rejects a non-numeric column.
RollingAccepts(t, w) == w.t = "int" /\ t.numeric

RollingError(t, w) ==
    IF w.t # "int"
    THEN Exc("ValueError", "window must be an integer 0 or greater")
    ELSE Exc("DataError", "No numeric types to aggregate")

\* Variant: rolling(window, min_periods=1).
MinPeriodsOne(w) == 1

\* min_periods defaults to the window size.
MinPeriods(w) == w

\* The sliding accumulator after the first i cells: each cell is added, and
\* the cell that left the window of size w is removed.
RECURSIVE RollAcc(_, _, _)
RollAcc(close, w, i) ==
    IF i = 0 THEN [sum |-> 0, nobs |-> 0]
    ELSE LET p == RollAcc(close, w, i - 1) IN
         IF i > w
         THEN [sum |-> p.sum + close[i] - close[i - w], nobs |-> p.nobs]
         ELSE [sum |-> p.sum + close[i], nobs |-> p.nobs + 1]

RollingMeanCell(close, w, i) ==
    LET a == RollAcc(close, w, i) IN
    IF a.nobs >= MinPeriods(w) THEN Frac(a.sum, a.nobs) ELSE NaN

RollingMean(close, w) ==
    [i \in 1..Len(close) |-> RollingMeanCell(close, w, i)]

\* df[name] = cells: a new column is appended, an existing one replaced.
WithColumn(t, name, cells) ==
    [cols |-> IF name \in Range(t.cols) THEN t.cols ELSE Append(t.cols, name),
     col |-> [c \in Range(t.cols) \cup {name} |->
                 IF c = name THEN cells ELSE t.col[c]],
     numeric |-> t.numeric]

(***************************************************************************)
(* (df["close"] > df["rolling_mean"]).astype(int)                          *)
(***************************************************************************)
\* A comparison with NaN is False; close > num / den with den > 0.
\* Variant: close >= rolling_mean.
GreaterOrEqual(c, m) == ~m.nan /\ c * m.den >= m.num

Greater(c, m) == ~m.nan /\ c * m.den > m.num

SignalCell(c, m) == IF Greater(c, m) THEN 1 ELSE 0

Signal(close, mean) ==
    [i \in 1..Len(close) |-> SignalCell(close[i], mean[i])]

(***************************************************************************)
(* df["signal"].mean() and round(float(signal_rate), 4)                    *)
(***************************************************************************)
RECURSIVE SumSeq(_, _)
SumSeq(s, i) == IF i = 0 THEN 0 ELSE s[i] + SumSeq(s, i - 1)

\* Variant: the mean skips the rows whose signal is 0 at the head of the
\* series, as a NaN-skipping mean over a nullable signal column would skip
\* the warm-up rows.
RECURSIVE LeadingZeros(_, _)
LeadingZeros(s, i) ==
    IF i > Len(s) \/ s[i] # 0 THEN 0 ELSE 1 + LeadingZeros(s, i + 1)

SeriesMeanSkippingHead(s) ==
    IF LeadingZeros(s, 1) = Len(s) THEN Frac(0, Len(s))
    ELSE Frac(SumSeq(s, Len(s)), Len(s) - LeadingZeros(s, 1))

\* Series.mean() of an integer column: sum over count, no cell is skipped.
SeriesMean(s) == Frac(SumSeq(s, Len(s)), Len(s))

Scale == 10000

\* round(x, 4) in ten-thousandths, ties to even.
Round4(f) ==
    LET q == (f.num * Scale) \div f.den
        r == (f.num * Scale) % f.den
    IN IF 2 * r > f.den \/ (2 * r = f.den /\ q % 2 = 1) THEN q + 1 ELSE q

(***************************************************************************)
(* Reports                                                                 *)
(***************************************************************************)
EmptyDoc == [k \in {} |-> NullV]

NoFile == [exists |-> FALSE, complete |-> FALSE, doc |-> EmptyDoc]

\* A file whose JSON text was written to the end.
Written(doc) == [exists |-> TRUE, complete |-> TRUE, doc |-> doc]

\* The file left behind when json.dump raised after open(path, "w")
\* truncated it: the text stops inside the object.
Truncated == [exists |-> TRUE, complete |-> FALSE, doc |-> EmptyDoc]

SuccessReport(cfg, rows, rate, latency) ==
    ("version" :> cfg["version"]) @@ ("rows_processed" :> IntV(rows))
    @@ ("metric" :> StrV("signal_rate")) @@ ("value" :> FloatV(Round4(rate)))
    @@ ("latency_ms" :> IntV(latency)) @@ ("seed" :> cfg["seed"])
    @@ ("status" :> StrV("success"))

\* write_error's error_output
ErrorReport(v, message) ==
    ("version" :> v) @@ ("status" :> StrV("error"))
    @@ ("error_message" :> StrV(message))

Unknown == StrV("unknown")

\* yaml.safe_load(open(args.config))["version"], any exception swallowed.
RereadRaises(file) == file.kind # "map" \/ "version" \notin DOMAIN file.map

\* Variant: the handler never re-reads the config file.
RecoverVersionNoReread(file) == Unknown

RecoverVersion(file) ==
    IF file.kind = "absent" THEN Unknown
    ELSE IF RereadRaises(file) THEN Unknown
    ELSE file.map["version"]

(***************************************************************************)
(* The explored file systems.                                              *)
(***************************************************************************)
Keys == Range(required_keys)

Vals ==
    {IntV(n) : n \in -1..MaxWindow}
    \cup {BoolV(TRUE), FloatV(15000), StrV("v1"), NullV, DateV}

ConfigMaps == UNION {[K -> Vals] : K \in SUBSET Keys}

ConfigFile(kind, map) == [kind |-> kind, map |-> map]

ConfigFiles ==
    {ConfigFile(k, NoConfig) : k \in {"absent", "malformed", "empty", "scalar"}}
    \cup {ConfigFile("map", m) : m \in ConfigMaps}

\* Configurations load_config accepts, one per window size.
PlainConfigFiles ==
    {ConfigFile("map", ("seed" :> IntV(2)) @@ ("window" :> IntV(w))
                       @@ ("version" :> StrV("v1"))) : w \in 1..MaxWindow}

CloseVals == {10 * k : k \in 1..MaxClose}

CloseSeqs == UNION {[1..n -> CloseVals] : n \in 0..MaxRows}

\* Every column other than close holds the row number.
Table(cols, closes, numeric) ==
    [cols |-> cols,
     col |-> [c \in Range(cols) |->
                 IF c = "close" THEN closes ELSE [i \in 1..Len(closes) |-> i]],
     numeric |-> numeric]

InputFile(kind, table) == [kind |-> kind, table |-> table]

Headers == {<<"close">>, <<"date">>, <<"date", "close">>}

SmallInputFiles ==
    {InputFile(k, NoTable) : k \in {"absent", "unparseable"}}
    \cup {InputFile("table", Table(h, c, num)) :
             h \in Headers, c \in {<<>>, <<10, 20>>}, num \in BOOLEAN}

AllInputFiles ==
    {InputFile("table", Table(<<"date", "close">>, c, TRUE)) : c \in CloseSeqs}

Init ==
    /\ \/ /\ cfgFile \in ConfigFiles
          /\ inFile \in SmallInputFiles
          /\ outWritable \in BOOLEAN
       \/ /\ cfgFile \in PlainConfigFiles
          /\ inFile \in AllInputFiles
          /\ outWritable = TRUE
    /\ pc = "start"
    /\ config = NoConfig
    /\ configLoaded = FALSE
    /\ rng = Unseeded
    /\ inputReads = 0
    /\ df = NoTable
    /\ signal_rate = NaN
    /\ latency_ms = 0
    /\ outFile = NoFile
    /\ stdout = <<>>
    /\ log = <<>>
    /\ err = NoErr
    /\ failedAt = "none"
    /\ version = NullV
    /\ exitCode = -1
    /\ crashed = FALSE

(***************************************************************************)
(* main                                                                    *)
(***************************************************************************)
Info(text) == <<"INFO", text>>
Error(text) == <<"ERROR", text>>

\* An exception raised inside the try block reaches "except Exception as e".
Caught(step, e) ==
    /\ err' = e
    /\ failedAt' = step
    /\ pc' = "except"

JobStart ==
    /\ pc = "start"
    /\ log' = Append(log, Info("Job started"))
    /\ pc' = "load_config"
    /\ UNCHANGED <<cfgFile, inFile, outWritable, config, configLoaded, rng,
                   inputReads, df, signal_rate, latency_ms, outFile, stdout,
                   err, failedAt, version, exitCode, crashed>>

LoadConfig ==
    /\ pc = "load_config"
    /\ LET r == load_config(cfgFile) IN
       IF r.ok
       THEN /\ config' = r.config
            /\ configLoaded' = TRUE
            /\ pc' = "seed"
            /\ UNCHANGED <<err, failedAt>>
       ELSE /\ Caught("load_config", r.err)
            /\ UNCHANGED <<config, configLoaded>>
    /\ UNCHANGED <<cfgFile, inFile, outWritable, rng, inputReads, df,
                   signal_rate, latency_ms, outFile, stdout, log, version,
                   exitCode, crashed>>

SeedRandom ==
    /\ pc = "seed"
    /\ IF SeedAccepted(config["seed"])
       THEN /\ rng' = [seeded |-> TRUE, seed |-> config["seed"],
                       calls |-> rng.calls + 1]
            /\ log' = Append(log, Info("Config loaded"))
            /\ pc' = "load_data"
            /\ UNCHANGED <<err, failedAt>>
       ELSE /\ Caught("seed", Exc("ValueError",
                                  "Seed must be between 0 and 2**32 - 1"))
            /\ rng' = [rng EXCEPT !.calls = rng.calls + 1]
            /\ UNCHANGED log
    /\ UNCHANGED <<cfgFile, inFile, outWritable, config, configLoaded,
                   inputReads, df, signal_rate, latency_ms, outFile, stdout,
                   version, exitCode, crashed>>

LoadData ==
    /\ pc = "load_data"
    /\ inputReads' = inputReads + 1
    /\ LET r == load_data(inFile) IN
       IF r.ok
       THEN /\ df' = r.df
            /\ log' = Append(log, Info("Data loaded"))
            /\ pc' = "rolling_mean"
            /\ UNCHANGED <<err, failedAt>>
       ELSE /\ Caught("load_data", r.err)
            /\ UNCHANGED <<df, log>>
    /\ UNCHANGED <<cfgFile, inFile, outWritable, config, configLoaded, rng,
                   signal_rate, latency_ms, outFile, stdout, version,
                   exitCode, crashed>>

ComputeRollingMean ==
    /\ pc = "rolling_mean"
    /\ LET w == config["window"] IN
       IF RollingAccepts(df, w)
       THEN /\ df' = WithColumn(df, "rolling_mean",
                                RollingMean(df.col["close"], w.n))
            /\ log' = Append(log, Info("Rolling mean calculated"))
            /\ pc' = "signal"
            /\ UNCHANGED <<err, failedAt>>
       ELSE /\ Caught("rolling_mean", RollingError(df, w))
            /\ UNCHANGED <<df, log>>
    /\ UNCHANGED <<cfgFile, inFile, outWritable, config, configLoaded, rng,
                   inputReads, signal_rate, latency_ms, outFile, stdout,
                   version, exitCode, crashed>>

ComputeSignal ==
    /\ pc = "signal"
    /\ df' = WithColumn(df, "signal",
                        Signal(df.col["close"], df.col["rolling_mean"]))
    /\ log' = Append(log, Info("Signals generated"))
    /\ pc' = "metrics"
    /\ UNCHANGED <<cfgFile, inFile, outWritable, config, configLoaded, rng,
                   inputReads, signal_rate, latency_ms, outFile, stdout, err,
                   failedAt, version, exitCode, crashed>>

ComputeMetrics ==
    /\ pc = "metrics"
    /\ signal_rate' = SeriesMean(df.col["signal"])
    /\ \E ms \in 0..MaxLatency : latency_ms' = ms
    /\ log' = Append(log, Info("Metrics"))
    /\ pc' = "write_output"
    /\ UNCHANGED <<cfgFile, inFile, outWritable, config, configLoaded, rng,
                   inputReads, df, outFile, stdout, err, failedAt, version,
                   exitCode, crashed>>

\* open(args.output, "w"), json.dump, print, the last log line, sys.exit(0).
WriteOutput ==
    /\ pc = "write_output"
    /\ LET output == SuccessReport(config, NRows(df), signal_rate, latency_ms) IN
       IF outWritable
       THEN /\ outFile' = Written(output)
            /\ stdout' = Append(stdout, output)
            /\ log' = Append(log, Info("Job completed successfully"))
            /\ exitCode' = 0
            /\ pc' = "done"
            /\ UNCHANGED <<err, failedAt>>
       ELSE /\ Caught("write_output", Exc("OSError", "cannot open the output path"))
            /\ UNCHANGED <<outFile, stdout, log, exitCode>>
    /\ UNCHANGED <<cfgFile, inFile, outWritable, config, configLoaded, rng,
                   inputReads, df, signal_rate, latency_ms, version, crashed>>

\* logging.error(str(e)) and the recovery of the version.
Except ==
    /\ pc = "except"
    /\ log' = Append(log, Error(err.msg))
    /\ version' = RecoverVersion(cfgFile)
    /\ pc' = "write_error"
    /\ UNCHANGED <<cfgFile, inFile, outWritable, config, configLoaded, rng,
                   inputReads, df, signal_rate, latency_ms, outFile, stdout,
                   err, failedAt, exitCode, crashed>>

\* write_error(args.output, version, str(e)), print, sys.exit(1).  An
\* exception raised here is inside the handler and leaves main: the
\* interpreter prints the traceback and exits with status 1.
WriteError ==
    /\ pc = "write_error"
    /\ IF ~outWritable
       THEN /\ crashed' = TRUE
            /\ UNCHANGED <<outFile, stdout>>
       ELSE IF ~JsonSerializable(version)
       THEN /\ outFile' = Truncated
            /\ crashed' = TRUE
            /\ UNCHANGED stdout
       ELSE /\ outFile' = Written(ErrorReport(version, err.msg))
            /\ stdout' = Append(stdout, StrV("Error: " \o err.msg))
            /\ UNCHANGED crashed
    /\ exitCode' = 1
    /\ pc' = "done"
    /\ UNCHANGED <<cfgFile, inFile, outWritable, config, configLoaded, rng,
                   inputReads, df, signal_rate, latency_ms, log, err,
                   failedAt, version>>

Next ==
    \/ JobStart
    \/ LoadConfig
    \/ SeedRandom
    \/ LoadData
    \/ ComputeRollingMean
    \/ ComputeSignal
    \/ ComputeMetrics
    \/ WriteOutput
    \/ Except
    \/ WriteError

Spec == Init /\ [][Next]_vars

(***************************************************************************)
(* Reference definitions used by the properties: written from the          *)
(* statements being checked, not from the operators above.                 *)
(***************************************************************************)
Finished == pc = "done"
Failed == failedAt # "none"

ErrorFields == {"version", "status", "error_message"}
SuccessFields ==
    {"version", "rows_processed", "metric", "value", "latency_ms", "seed",
     "status"}

\* The sum of s[lo .. hi].
RECURSIVE WindowSum(_, _, _)
WindowSum(s, lo, hi) == IF lo > hi THEN 0 ELSE s[lo] + WindowSum(s, lo + 1, hi)

FileClose == inFile.table.col["close"]
FileWindow == cfgFile.map["window"].n

\* Rows (1-based) whose close exceeds the mean of the Window values ending there.
RowsAboveMean ==
    {i \in FileWindow..Len(FileClose) :
        FileClose[i] * FileWindow
            > WindowSum(FileClose, i - FileWindow + 1, i)}

HasColumn(name) == name \in Range(df.cols)

(***************************************************************************)
(* C1                                                                      *)
(***************************************************************************)
\* C1: every run terminates with exit code 1 when a step failed and 0 when
\* none did, and no exception leaves main uncaught.
C1_CaughtAndExitCode ==
    Finished =>
        /\ ~crashed
        /\ exitCode = IF Failed THEN 1 ELSE 0

(***************************************************************************)
(* C2                                                                      *)
(***************************************************************************)
\* C2: at termination the output path holds one complete report: after a
\* failure exactly version, status = "error" and error_message = the caught
\* message; after success the seven fields with status = "success".
\* Stated for the runs whose output path can be opened for writing.
C2_OneCompleteReport ==
    (Finished /\ outWritable) =>
        /\ outFile.exists
        /\ outFile.complete
        /\ IF Failed
           THEN /\ DOMAIN outFile.doc = ErrorFields
                /\ outFile.doc["status"] = StrV("error")
                /\ outFile.doc["error_message"] = StrV(err.msg)
           ELSE /\ DOMAIN outFile.doc = SuccessFields
                /\ outFile.doc["status"] = StrV("success")

(***************************************************************************)
(* C3                                                                      *)
(***************************************************************************)
ConfiguredVersion ==
    IF configLoaded THEN config["version"]
    ELSE IF cfgFile.kind = "map" /\ "version" \in DOMAIN cfgFile.map
    THEN cfgFile.map["version"]
    ELSE Unknown

\* C3: an error report carries the configured version when load_config had
\* succeeded, else the version a re-read of the config file yields, else
\* "unknown" (always "unknown" when the file is absent); a failing re-read
\* changes neither error_message nor whether the report is written.
C3_ErrorReportVersion ==
    (Finished /\ Failed) =>
        /\ (outFile.exists /\ outFile.complete) =>
               /\ outFile.doc["version"] = ConfiguredVersion
               /\ outFile.doc["error_message"] = StrV(err.msg)
               /\ cfgFile.kind = "absent" => outFile.doc["version"] = Unknown
        /\ (outWritable /\ ~configLoaded
               /\ ~(cfgFile.kind = "map" /\ "version" \in DOMAIN cfgFile.map)) =>
               outFile = Written(ErrorReport(Unknown, err.msg))

C3_Witness ==
    /\ Finished
    /\ configLoaded
    /\ err.msg = "Missing required column: close"
    /\ outFile = Written(ErrorReport(StrV("v1"), "Missing required column: close"))

(***************************************************************************)
(* C4                                                                      *)
(***************************************************************************)
ExpectedMissingMessage(m) ==
    IF "seed" \notin DOMAIN m THEN "Missing config key: seed"
    ELSE IF "window" \notin DOMAIN m THEN "Missing config key: window"
    ELSE "Missing config key: version"

ConfigLoadAttempted == pc \notin {"start", "load_config"}

\* C4: a configuration mapping lacking any of seed, window, version makes
\* load_config fail with "Missing config key: <key>" for the first absent
\* key in the order seed, window, version, whatever the present keys hold.
C4_FirstMissingKeyNamed ==
    (ConfigLoadAttempted /\ cfgFile.kind = "map"
        /\ Keys \ DOMAIN cfgFile.map # {}) =>
        /\ ~configLoaded
        /\ failedAt = "load_config"
        /\ err = Exc("ValueError", ExpectedMissingMessage(cfgFile.map))

C4_Witness ==
    /\ ConfigLoadAttempted
    /\ cfgFile.kind = "map"
    /\ DOMAIN cfgFile.map = {"seed"}
    /\ cfgFile.map["seed"] = NullV
    /\ err.msg = "Missing config key: window"

(***************************************************************************)
(* C5                                                                      *)
(***************************************************************************)
\* C5: with all three keys present, load_config returns the parsed
\* configuration only if seed is an integer, window an integer > 0 and
\* version a string (a boolean, float, string or null is not an integer);
\* otherwise it fails with the message of the first failing check.
C5_TypesEnforcedExactly ==
    (ConfigLoadAttempted /\ cfgFile.kind = "map"
        /\ DOMAIN cfgFile.map = Keys) =>
        LET m == cfgFile.map
            rejected(text) ==
                /\ ~configLoaded
                /\ failedAt = "load_config"
                /\ err = Exc("ValueError", text)
        IN IF m["seed"].t # "int"
           THEN rejected("Seed must be integer")
           ELSE IF ~(m["window"].t = "int" /\ m["window"].n > 0)
           THEN rejected("Window must be positive integer")
           ELSE IF m["version"].t # "str"
           THEN rejected("Version must be string")
           ELSE configLoaded /\ config = m

(***************************************************************************)
(* C6                                                                      *)
(***************************************************************************)
DataLoadFailedWith(type, text) ==
    failedAt = "load_data" /\ err = Exc(type, text)

\* C6: load_data fails with the first applicable of: path absent, parse
\* error, zero rows (even without a close column), no close column; and
\* otherwise returns the file's columns and rows unchanged.
C6_LoadDataOrder ==
    inputReads > 0 =>
        IF inFile.kind = "absent"
        THEN DataLoadFailedWith("FileNotFoundError", "Input CSV file not found")
        ELSE IF inFile.kind = "unparseable"
        THEN DataLoadFailedWith("ValueError", "Invalid CSV file format")
        ELSE IF \A c \in DOMAIN inFile.table.col : Len(inFile.table.col[c]) = 0
        THEN DataLoadFailedWith("ValueError", "Input CSV file is empty")
        ELSE IF "close" \notin DOMAIN inFile.table.col
        THEN DataLoadFailedWith("ValueError", "Missing required column: close")
        ELSE /\ failedAt # "load_data"
             /\ pc = "rolling_mean" => df = inFile.table

C6_Witness ==
    /\ inputReads > 0
    /\ inFile.kind = "table"
    /\ inFile.table.cols = <<"date">>
    /\ Len(inFile.table.col["date"]) = 0
    /\ err.msg = "Input CSV file is empty"

(***************************************************************************)
(* C7                                                                      *)
(***************************************************************************)
\* C7: rolling_mean has one cell per row, is defined at row i (1-based) iff
\* i >= window, and there equals the mean of close[i-window+1 .. i]; the
\* close column and the row order are unchanged.
C7_RollingMean ==
    HasColumn("rolling_mean") =>
        LET rm == df.col["rolling_mean"] IN
        /\ Len(rm) = Len(FileClose)
        /\ df.col["close"] = FileClose
        /\ \A c \in DOMAIN inFile.table.col : df.col[c] = inFile.table.col[c]
        /\ \A i \in 1..Len(FileClose) :
              /\ ~rm[i].nan <=> i >= FileWindow
              /\ i >= FileWindow =>
                    rm[i].num * FileWindow
                        = WindowSum(FileClose, i - FileWindow + 1, i) * rm[i].den

C7_Witness ==
    /\ HasColumn("rolling_mean")
    /\ FileWindow = 3
    /\ FileClose = <<10, 20, 30, 40, 20>>
    /\ df.col["rolling_mean"] = <<NaN, NaN, Frac(60, 3), Frac(90, 3), Frac(90, 3)>>

Succeeded == Finished /\ ~Failed

C10_SeededOncePerConfigLoad ==
    /\ (configLoaded /\ pc # "seed") =>
          rng = [seeded |-> TRUE, seed |-> config["seed"], calls |-> 1]
    /\ ~configLoaded => (rng = Unseeded /\ inputReads = 0)
    /\ inputReads > 0 => rng.seeded
    /\ inputReads <= 1
    /\ HasColumn("rolling_mean") => inputReads = 1
    /\ HasColumn("signal") => HasColumn("rolling_mean")
    /\ ~signal_rate.nan => HasColumn("signal")
    /\ (Finished /\ outFile.complete /\ ~Failed) => ~signal_rate.nan
    /\ failedAt = "load_config" => (inputReads = 0 /\ df = NoTable)
    /\ failedAt = "load_data" => (df = NoTable /\ signal_rate.nan)
    /\ failedAt = "rolling_mean" => (~HasColumn("rolling_mean") /\ signal_rate.nan)

====
